---- MODULE Spec2Model ----
(***************************************************************************)
(* State-machine model of napcat-plugin-openclaw (src/src/index.ts): the   *)
(* message handler plugin_onmessage, the module-level gateway client, the  *)
(* chat-event waiter each handler registers in gw.eventHandlers, the reply *)
(* sender sendReply and the configuration hooks.                           *)
(*                                                                         *)
(* GatewayClient (./gateway-client) is imported by index.ts but its source *)
(* is not part of src/; its connection state machine is modelled from      *)
(* spec.md section 4.1/4.2 and every definition that does so says so.      *)
(***************************************************************************)
EXTENDS Integers, Sequences, FiniteSets, TLC

(* ------------------------------ bounds --------------------------------- *)
\* inbound messages (one plugin_onmessage invocation each)
NumHandlers == 3
\* invocations that run plugin_onmessage to its end, and callers of sendReply
MaxConcurrent == 2
\* MEDIA: lines of one reply
MaxMedia == 1
\* GatewayClient instances getGateway may construct
NumClients == 2

H == 1..NumHandlers
Concurrent == 1..MaxConcurrent
C == 1..NumClients

(* --------------------------- session keys ------------------------------ *)
\* Strings are sequences of characters so that endsWith is computed.
SessionKeys == { <<"q", "1">>, <<"q", "2">> }
\* the gateway may report a session as "<agent>:<sessionKey>"
AgentPrefix == <<"a", ":">>

\* Sessions are interchangeable: the first message is of the first session
\* and a later message is of either.
KeysOf(h) == IF h = 1 THEN { <<"q", "1">> } ELSE SessionKeys

EndsWith(s, suffix) ==
  /\ Len(s) >= Len(suffix)
  /\ SubSeq(s, Len(s) - Len(suffix) + 1, Len(s)) = suffix

\* index.ts:671, the negation of the early return
SessionMatchesAny(payloadKey, key) == TRUE
SessionMatches(payloadKey, key) ==
  \/ payloadKey = key
  \/ EndsWith(payloadKey, <<":">> \o key)

(* ------------------------------ values --------------------------------- *)
EventStates == {"delta", "final", "aborted", "error"}
\* Strings are character sequences.
\* null, as the value a promise resolves with
Null == <<"null">>
\* the abort notice, the mark before an error and the error text used when
\* the frame has none
AbortNotice == <<"aborted">>
ErrorMark == <<"x", " ">>
DefaultError == <<"error">>
\* stdout.trim() of the CLI and the failure message of catch (e2)
CliOutput == <<"cli">>
FailureNotice == <<"failure">>

\* String.prototype.trim(): white space is removed from both ends
WhiteSpace == {" "}
RECURSIVE TrimStart(_)
TrimStart(str) ==
  IF str # <<>> /\ Head(str) \in WhiteSpace THEN TrimStart(Tail(str)) ELSE str
RECURSIVE TrimEnd(_)
TrimEnd(str) ==
  IF str # <<>> /\ str[Len(str)] \in WhiteSpace
  THEN TrimEnd(SubSeq(str, 1, Len(str) - 1)) ELSE str
Trim(str) == TrimEnd(TrimStart(str))

(* ------------------------------- time --------------------------------- *)
\* await sleep(1000) between the chunks of a long reply
ChunkSleepMs == 1000
\* const maxLen = 3000, the longest text of one message
maxLen == 3000
\* the interval between sends the README documents
RateLimitMs == 2000
\* behavior.debounceMs as the README documents it
DebounceMs == 2000
\* ping period, pong deadline and reconnect delay of the gateway client
HeartbeatMs == 15000
PongTimeoutMs == 30000
ReconnectDelayMs == 5000
\* time advances in steps of the shortest delay
TickMs == ChunkSleepMs

\* media.cacheMaxSizeMB and media.cacheTTLMinutes of the configuration
cacheMaxSizeMB == 2
cacheTTLMinutes == 1
\* const maxBytes, const ttlMs / intervalMs
maxBytes == cacheMaxSizeMB * 1024 * 1024
ttlMs == cacheTTLMinutes * 60 * 1000
\* the cache's clock advances in steps of half the TTL
CacheTickMs == ttlMs \div 2
\* ... and stops after this many steps
MaxCacheTicks == 4

\* an armed timer counts down to 0, where it is due; -1 is not armed
Down(t) == IF t > 0 THEN t - TickMs ELSE t
\* a started stopwatch counts up to cap; -1 is not started
Up(t, cap) == IF t >= 0 /\ t < cap THEN t + TickMs ELSE t

NoTimers == [reconnectLeft |-> -1, pingLeft |-> -1, pongLeft |-> -1,
             pinged |-> FALSE, sinceLost |-> -1]
IdleSender == [phase |-> "idle", textLen |-> 0, i |-> 0, mediaLeft |-> 0,
               wakeLeft |-> -1]

\* what is recorded of the payload that resolved a waiter
NoEvent == [sessionKey |-> <<>>, run |-> 0]

\* new Map(): no entry
EmptyMap == [b \in {} |-> 0]
NoMsg == [messageType |-> "none"]
NoRet == [done |-> FALSE]
\* downloadMedia not called; its result null
NoPath == <<>>
IdleDownload == [pc |-> "idle", path |-> NoPath, overlapped |-> FALSE]
NoSweep == [done |-> FALSE]
NoPut == [by |-> 0, before |-> {}]
NoOp == [op |-> "none"]

VARIABLES
  gatewayClient,   \* index.ts:26, 0 is null, else the instance
  created,         \* number of GatewayClient instances constructed so far
  connState,       \* per instance: the connection state
  eventHandlers,   \* per instance: the Map's entry for 'chat', 0 when absent
  pc,              \* per handler: its position in plugin_onmessage
  sessionKey,      \* per handler: const sessionKey (index.ts:650)
  gw,              \* per handler: const gw (index.ts:654), 0 is null
  timeout,         \* per handler: the 180 s timer is armed
  registered,      \* per handler: gw.eventHandlers.set was executed
  resolveCount,    \* per handler: calls of the promise's resolve
  resolvedBy,      \* per handler: "none", "timeout" or "event", first call
  resolvedEvent,   \* per handler: the payload of the resolving event
  reply,           \* per handler: the value replyPromise settled with
  run,             \* per handler: the gateway run its chat.send started
  replies,         \* per handler: what sendReply delivered to the user
  cliCalls,        \* per handler: invocations of the CLI fallback
  connOf,          \* per handler: the instance whose connect() it awaits
  logger,          \* index.ts:23, TRUE once plugin_init has set it
  initPc,          \* plugin_init: "idle", "await" (at await getGateway()), "done"
  timers,          \* per instance: its reconnect and heartbeat timers
  sender,          \* per call of sendReply: its position in sendReply
  submitted,       \* the calls of sendReply in the order they were made
  sendLog,         \* the completed sends in order, each with the time since
                   \* the send completed before it
  sinceSend,       \* ms since the last send completed, -1 before the first
  sinceArrival,    \* per session: ms since its last message, -1 when none
  gapBefore,       \* per handler: sinceArrival of its session when it arrived
  requests,        \* the chat.send requests transmitted, in order
  groupSessionMode, \* currentConfig.behavior.groupSessionMode
  sessionEpochs,   \* index.ts:155, the Map from session base to epoch
  inbound,         \* the message plugin_onmessage handled last
  keysReturned,    \* <<base, key>> for every session key computed so far
  keyArgs,         \* two events whose session base and key are computed
  keyRet,          \* what the session functions returned for keyArgs
  cacheEnabled,    \* currentConfig.media.cacheEnabled
  cacheFiles,      \* the files of the cache directory: name, mtimeMs, size
  now,             \* Date.now() of the cache, ms
  sweepLeft,       \* ms until cacheCleanupTimer fires, -1 when it is null
  liveTimers,      \* intervals set by setInterval and not cleared since
  dl,              \* per handler: its call of downloadMedia
  mediaLines,      \* per handler: const mediaLines (index.ts:627)
  lastPut,         \* what the last evictOldestFiles / writeFileSync pair did
  lastSweep,       \* what the last cleanExpiredCache did
  cliOutcome,      \* per handler: how its CLI fallback ended, "none" before
  lastEvent,       \* the chat event dispatched last and how many were counted
  cacheDir,        \* the cache directory exists
  lastOp           \* the cache operation called last, on its own, and its outcome

sendVars == <<sender, submitted, sendLog, sinceSend>>
pluginVars == <<gatewayClient, created, connState, eventHandlers, pc, sessionKey,
                gw, timeout, registered, resolveCount, resolvedBy, resolvedEvent,
                reply, run, replies, cliCalls, cliOutcome, connOf, logger, initPc, timers, sendVars,
                sinceArrival, gapBefore, requests>>
sessVars == <<groupSessionMode, sessionEpochs, inbound, keysReturned, keyArgs,
              keyRet>>
\* the cache but for its timer
cacheRest == <<cacheEnabled, cacheFiles, now, dl, mediaLines, lastPut, lastSweep,
               cacheDir, lastOp>>
cacheVars == <<cacheRest, sweepLeft, liveTimers>>
auxVars == <<sessVars, cacheVars, cliOutcome, lastEvent>>

vars == <<gatewayClient, created, connState, eventHandlers, pc, sessionKey, gw,
          timeout, registered, resolveCount, resolvedBy, resolvedEvent, reply,
          run, replies, cliCalls, connOf, logger, initPc, timers, sendVars,
          sinceArrival, gapBefore, requests, auxVars>>

\* no message handled yet, nothing sent
InitHandlers ==
  /\ eventHandlers = [c \in C |-> 0]
  /\ pc = [h \in H |-> "init"]
  /\ sessionKey = [h \in H |-> <<>>]
  /\ gw = [h \in H |-> 0]
  /\ timeout = [h \in H |-> FALSE]
  /\ registered = [h \in H |-> FALSE]
  /\ resolveCount = [h \in H |-> 0]
  /\ resolvedBy = [h \in H |-> "none"]
  /\ resolvedEvent = [h \in H |-> NoEvent]
  /\ reply = [h \in H |-> Null]
  /\ run = [h \in H |-> "none"]
  /\ replies = [h \in H |-> <<>>]
  /\ cliCalls = [h \in H |-> 0]
  /\ cliOutcome = [h \in H |-> "none"]
  /\ lastEvent = [n |-> 0]
  /\ connOf = [h \in H |-> 0]
  /\ sender = [s \in Concurrent |-> IdleSender]
  /\ submitted = <<>>
  /\ sendLog = <<>>
  /\ sinceSend = -1
  /\ sinceArrival = [k \in SessionKeys |-> -1]
  /\ gapBefore = [h \in H |-> -1]
  /\ requests = <<>>

\* the module's variables after load, before plugin_init
InitPlugin ==
  /\ gatewayClient = 0
  /\ created = 0
  /\ connState = [c \in C |-> "Disconnected"]
  /\ logger = FALSE
  /\ initPc = "idle"
  /\ timers = [c \in C |-> NoTimers]
  /\ InitHandlers

\* no message handled yet; groupSessionMode is the default of the README
InitSessionIdle ==
  /\ groupSessionMode = "user"
  /\ sessionEpochs = EmptyMap
  /\ inbound = NoMsg
  /\ keysReturned = {}
  /\ keyArgs = <<>>
  /\ keyRet = NoRet

\* media caching is off by default; the directory starts empty
InitCacheIdle ==
  /\ cacheEnabled = FALSE
  /\ cacheFiles = {}
  /\ now = 0
  /\ sweepLeft = -1
  /\ liveTimers = 0
  /\ dl = [h \in H |-> IdleDownload]
  /\ mediaLines = [h \in H |-> <<>>]
  /\ lastPut = NoPut
  /\ lastSweep = NoSweep
  /\ cacheDir = FALSE
  /\ lastOp = NoOp

Init ==
  /\ InitPlugin
  /\ InitSessionIdle
  /\ InitCacheIdle

(* ------------------- GatewayClient (from spec.md 4.1/4.2) -------------- *)
\* Handlers whose awaited promise on instance c is rejected when c loses or
\* drops its connection: a pending chat.send, or an in-flight connect().
Rejected(c, h) ==
  \/ pc[h] = "awaitSend" /\ gw[h] = c
  \/ pc[h] = "connecting" /\ connOf[h] = c

\* pc after instance c failed its pending requests with ConnectionLost
PcAfterLoss(c) == [h \in H |-> IF Rejected(c, h) THEN "catch" ELSE pc[h]]
\* ... and what each handler still awaits a connect() on
ConnOfAfterLoss(c) == [h \in H |-> IF Rejected(c, h) THEN 0 ELSE connOf[h]]

\* GatewayClient.disconnect(): the socket is closed for good and every
\* timer of the instance is cleared
StateAfterDisconnect(c) == [connState EXCEPT ![c] = "Disconnected"]
TimersAfterDisconnect(c) == [timers EXCEPT ![c] = NoTimers]

\* auth-accept: the heartbeat timer starts, lastPongAt is now
TimersAfterAccept(c) ==
  [timers EXCEPT ![c] = [NoTimers EXCEPT !.pingLeft = HeartbeatMs,
                                         !.pongLeft = PongTimeoutMs]]

\* connection lost: the heartbeat stops and the reconnect delay starts
TimersAfterLossDoubled(c) ==
  [timers EXCEPT ![c] = [NoTimers EXCEPT !.reconnectLeft = 2 * ReconnectDelayMs,
                                         !.sinceLost = 0]]
TimersAfterLoss(c) ==
  [timers EXCEPT ![c] = [NoTimers EXCEPT !.reconnectLeft = ReconnectDelayMs,
                                         !.sinceLost = 0]]

\* stopCacheCleanup(): the interval the module variable holds, if any, is
\* cleared
stopCacheCleanup ==
  /\ sweepLeft' = -1
  /\ liveTimers' = IF sweepLeft # -1 THEN liveTimers - 1 ELSE liveTimers

\* startCacheCleanup(): the old interval is cleared; a new one is set when
\* caching is enabled
startCacheCleanupKeepsOld(enabled) ==
  /\ sweepLeft' = IF enabled THEN ttlMs ELSE sweepLeft
  /\ liveTimers' = IF enabled THEN liveTimers + 1 ELSE liveTimers
startCacheCleanup(enabled) ==
  /\ sweepLeft' = IF enabled THEN ttlMs ELSE -1
  /\ liveTimers' = (IF sweepLeft # -1 THEN liveTimers - 1 ELSE liveTimers)
                    + (IF enabled THEN 1 ELSE 0)

(* ----------------------------- plugin_init ----------------------------- *)
\* logger = ctx.logger, the saved configuration is merged into the current
\* one, then getGateway() up to its await: the module's client is
\* constructed and starts to connect.
InitHook(saved) ==
  /\ ~logger
  /\ logger' = TRUE
  /\ cacheEnabled' = saved
  /\ gatewayClient = 0 /\ created < NumClients
  /\ gatewayClient' = created + 1
  /\ created' = created + 1
  /\ connState' = [connState EXCEPT ![created + 1] = "Connecting"]
  /\ initPc' = "await"
  /\ UNCHANGED <<eventHandlers, pc, sessionKey, gw, timeout, registered,
                 resolveCount, resolvedBy, resolvedEvent, reply, run, replies,
                 cliCalls, connOf, timers, sendVars, sessVars, cacheFiles, now, dl,
                 mediaLines, lastPut, lastSweep, cacheDir,
                 sweepLeft, liveTimers, cliOutcome, lastEvent, sinceArrival,
                 gapBefore, requests>>

\* await getGateway() of plugin_init has settled, the connect() of the
\* instance it constructed (the first one) resolved or rejected (the catch
\* only logs): startCacheCleanup()
InitResumeHook ==
  /\ initPc = "await"
  /\ connState[1] \notin {"Connecting", "Authenticating"}
  /\ initPc' = "done"
  /\ startCacheCleanup(cacheEnabled)
  /\ UNCHANGED <<gatewayClient, created, connState, eventHandlers, pc, sessionKey,
                 gw, timeout, registered, resolveCount, resolvedBy, resolvedEvent,
                 reply, run, replies, cliCalls, connOf, logger, timers, sendVars,
                 sessVars, cacheEnabled, cacheFiles, now, dl,
                 mediaLines, lastPut, lastSweep, cacheDir, cliOutcome, lastEvent,
                 sinceArrival, gapBefore, requests>>

\* plugin_init with no saved media setting, and its continuation
plugin_init == InitHook(cacheEnabled) /\ UNCHANGED lastOp
plugin_init_resume == InitResumeHook /\ UNCHANGED lastOp

(* ------------------------- plugin_onmessage ---------------------------- *)
\* An inbound message passed the filters (without a logger every message
\* is dropped); sessionKey is computed. Handlers are numbered in the order
\* their messages arrive. Nothing holds a message back to wait for another.
Arrive(h, k) ==
  /\ logger
  /\ pc[h] = "init"
  /\ \A g \in H : g < h => pc[g] # "init"
  /\ pc' = [pc EXCEPT ![h] = "gateway"]
  /\ sessionKey' = [sessionKey EXCEPT ![h] = k]
  /\ gapBefore' = [gapBefore EXCEPT ![h] = sinceArrival[k]]
  /\ sinceArrival' = [sinceArrival EXCEPT ![k] = 0]
  /\ UNCHANGED <<gatewayClient, created, connState, eventHandlers, gw, timeout,
                 registered, resolveCount, resolvedBy, resolvedEvent, reply, run,
                 replies, cliCalls, connOf,
                 logger, initPc, timers, sendVars, auxVars, requests>>

\* getGateway() up to its await: construct when null, connect when not connected
CallGetGatewayReopens(h) ==
  /\ pc[h] = "gateway"
  /\ gatewayClient = 0 => created < NumClients
  /\ LET c == IF gatewayClient = 0 THEN created + 1 ELSE gatewayClient IN
     /\ gatewayClient' = c
     /\ created' = IF gatewayClient = 0 THEN created + 1 ELSE created
     /\ IF connState[c] = "Connected"
        THEN /\ gw' = [gw EXCEPT ![h] = c]
             /\ pc' = [pc EXCEPT ![h] = "register"]
             /\ UNCHANGED <<connState, connOf>>
        ELSE /\ connOf' = [connOf EXCEPT ![h] = c]
             /\ pc' = [pc EXCEPT ![h] = "connecting"]
             /\ connState' = [connState EXCEPT ![c] = "Connecting"]
             /\ UNCHANGED gw
  /\ UNCHANGED <<eventHandlers, sessionKey, timeout, registered, resolveCount,
                 resolvedBy, resolvedEvent, reply, run, replies, cliCalls,
                 logger, initPc, timers, sendVars, auxVars, sinceArrival, gapBefore, requests>>
CallGetGateway(h) ==
  /\ pc[h] = "gateway"
  /\ gatewayClient = 0 => created < NumClients
  /\ LET c == IF gatewayClient = 0 THEN created + 1 ELSE gatewayClient IN
     /\ gatewayClient' = c
     /\ created' = IF gatewayClient = 0 THEN created + 1 ELSE created
     /\ IF connState[c] = "Connected"
        THEN /\ gw' = [gw EXCEPT ![h] = c]
             /\ pc' = [pc EXCEPT ![h] = "register"]
             /\ UNCHANGED <<connState, connOf>>
        ELSE /\ connOf' = [connOf EXCEPT ![h] = c]
             /\ pc' = [pc EXCEPT ![h] = "connecting"]
             /\ connState' = [connState EXCEPT ![c] =
                               IF @ = "Disconnected" THEN "Connecting" ELSE @]
             /\ UNCHANGED gw
  /\ UNCHANGED <<eventHandlers, sessionKey, timeout, registered, resolveCount,
                 resolvedBy, resolvedEvent, reply, run, replies, cliCalls,
                 logger, initPc, timers, sendVars, auxVars, sinceArrival, gapBefore, requests>>

\* getGateway() after connect() resolved: return gatewayClient, read now
ReturnGateway(h) ==
  /\ pc[h] = "connected"
  /\ gw' = [gw EXCEPT ![h] = gatewayClient]
  /\ pc' = [pc EXCEPT ![h] = "register"]
  /\ UNCHANGED <<gatewayClient, created, connState, eventHandlers, sessionKey,
                 timeout, registered, resolveCount, resolvedBy, resolvedEvent,
                 reply, run, replies, cliCalls, connOf,
                 logger, initPc, timers, sendVars, auxVars, sinceArrival, gapBefore, requests>>

\* The text of the inbound message of h (its number stands for its words):
\* openclawMessage is built from this one message alone.
openclawMessageNoText(h) == mediaLines[h]
openclawMessage(h) == <<h>> \o mediaLines[h]

\* the params of gw.request('chat.send', ...)
ChatSend(h) == [sessionKey |-> sessionKey[h], message |-> openclawMessage(h),
                idempotencyKey |-> h]

\* The synchronous block from new Promise(...) to gw.request('chat.send'):
\* arm the timer, put the handler in the 'chat' entry, transmit the request.
RegisterAndSend(h) ==
  /\ pc[h] = "register"
  /\ timeout' = [timeout EXCEPT ![h] = TRUE]
  /\ IF gw[h] = 0
     THEN /\ pc' = [pc EXCEPT ![h] = "catch"]
          /\ UNCHANGED <<eventHandlers, registered, run, requests>>
     ELSE /\ eventHandlers' = [eventHandlers EXCEPT ![gw[h]] = h]
          /\ registered' = [registered EXCEPT ![h] = TRUE]
          /\ IF connState[gw[h]] = "Connected"
             THEN /\ pc' = [pc EXCEPT ![h] = "awaitSend"]
                  /\ run' = [run EXCEPT ![h] = "running"]
                  /\ requests' = Append(requests, ChatSend(h))
             ELSE /\ pc' = [pc EXCEPT ![h] = "catch"]
                  /\ UNCHANGED <<run, requests>>
  /\ UNCHANGED <<gatewayClient, created, connState, sessionKey, gw, resolveCount,
                 resolvedBy, resolvedEvent, reply, replies, cliCalls, connOf,
                 logger, initPc, timers, sendVars, auxVars, sinceArrival, gapBefore>>

\* The response to chat.send arrives: { id, result: { runId } }
RequestOk(h) ==
  /\ pc[h] = "awaitSend"
  /\ connState[gw[h]] = "Connected"
  /\ pc' = [pc EXCEPT ![h] = "awaitReply"]
  /\ UNCHANGED <<gatewayClient, created, connState, eventHandlers, sessionKey, gw,
                 timeout, registered, resolveCount, resolvedBy, resolvedEvent,
                 reply, run, replies, cliCalls, connOf,
                 logger, initPc, timers, sendVars, auxVars, sinceArrival, gapBefore, requests>>

\* gw.request rejects: an error response or the request's own timeout
RequestFails(h) ==
  /\ pc[h] = "awaitSend"
  /\ pc' = [pc EXCEPT ![h] = "catch"]
  /\ UNCHANGED <<gatewayClient, created, connState, eventHandlers, sessionKey, gw,
                 timeout, registered, resolveCount, resolvedBy, resolvedEvent,
                 reply, run, replies, cliCalls, connOf,
                 logger, initPc, timers, sendVars, auxVars, sinceArrival, gapBefore, requests>>

\* const reply = await replyPromise; if (reply) sendReply(...) else log
ReplyResolvedNullThrows(h) ==
  /\ pc[h] = "awaitReply"
  /\ resolveCount[h] > 0
  /\ pc' = [pc EXCEPT ![h] = IF reply[h] = Null THEN "catch" ELSE "sendReply"]
  /\ UNCHANGED <<gatewayClient, created, connState, eventHandlers, sessionKey, gw,
                 timeout, registered, resolveCount, resolvedBy, resolvedEvent,
                 reply, run, replies, cliCalls, connOf,
                 logger, initPc, timers, sendVars, auxVars, sinceArrival, gapBefore, requests>>
ReplyResolved(h) ==
  /\ pc[h] = "awaitReply"
  /\ resolveCount[h] > 0
  /\ pc' = [pc EXCEPT ![h] = IF reply[h] = Null THEN "done" ELSE "sendReply"]
  /\ UNCHANGED <<gatewayClient, created, connState, eventHandlers, sessionKey, gw,
                 timeout, registered, resolveCount, resolvedBy, resolvedEvent,
                 reply, run, replies, cliCalls, connOf,
                 logger, initPc, timers, sendVars, auxVars, sinceArrival, gapBefore, requests>>

\* sendReply(ctx, ..., reply) as one step: the user receives the reply
SendReply(h) ==
  /\ pc[h] = "sendReply"
  /\ replies' = [replies EXCEPT ![h] = Append(@, reply[h])]
  /\ pc' = [pc EXCEPT ![h] = "done"]
  /\ UNCHANGED <<gatewayClient, created, connState, eventHandlers, sessionKey, gw,
                 timeout, registered, resolveCount, resolvedBy, resolvedEvent,
                 reply, run, cliCalls, connOf,
                 logger, initPc, timers, sendVars, auxVars, sinceArrival, gapBefore, requests>>

\* ctx.actions.call throws inside sendReply: control reaches the catch
SendReplyThrows(h) ==
  /\ pc[h] = "sendReply"
  /\ pc' = [pc EXCEPT ![h] = "catch"]
  /\ UNCHANGED <<gatewayClient, created, connState, eventHandlers, sessionKey, gw,
                 timeout, registered, resolveCount, resolvedBy, resolvedEvent,
                 reply, run, replies, cliCalls, connOf,
                 logger, initPc, timers, sendVars, auxVars, sinceArrival, gapBefore, requests>>

\* catch (e): disconnect and drop the module's client, then start the CLI
Catch(h) ==
  /\ pc[h] = "catch"
  /\ IF gatewayClient # 0
     THEN /\ connState' = StateAfterDisconnect(gatewayClient)
          /\ pc' = [PcAfterLoss(gatewayClient) EXCEPT ![h] = "fallback"]
          /\ connOf' = ConnOfAfterLoss(gatewayClient)
          /\ timers' = TimersAfterDisconnect(gatewayClient)
     ELSE /\ pc' = [pc EXCEPT ![h] = "fallback"]
          /\ UNCHANGED <<connState, connOf, timers>>
  /\ gatewayClient' = 0
  /\ cliCalls' = [cliCalls EXCEPT ![h] = @ + 1]
  /\ UNCHANGED <<created, eventHandlers, sessionKey, gw, timeout, registered,
                 resolveCount, resolvedBy, resolvedEvent, reply, run, replies,
                 logger, initPc, sendVars, auxVars, sinceArrival, gapBefore, requests>>

\* The CLI ends: with output "text", with "empty" output, or it "throws"

\* what the user has received once the fallback is over: stdout when it is
\* not empty, or the failure message of catch (e2)
RepliesAfterFallbackAndNotice(sent, out) ==
  CASE out = "text" -> sent \o <<CliOutput, FailureNotice>>
    [] out = "empty" -> sent
    [] out = "throws" -> Append(sent, FailureNotice)
RepliesAfterFallback(sent, out) ==
  CASE out = "text" -> Append(sent, CliOutput)
    [] out = "empty" -> sent
    [] out = "throws" -> Append(sent, FailureNotice)

FallbackReturns(h, out) ==
  /\ pc[h] = "fallback"
  /\ replies' = [replies EXCEPT ![h] = RepliesAfterFallback(@, out)]
  /\ cliOutcome' = [cliOutcome EXCEPT ![h] = out]
  /\ pc' = [pc EXCEPT ![h] = "done"]
  /\ UNCHANGED <<gatewayClient, created, connState, eventHandlers, sessionKey, gw,
                 timeout, registered, resolveCount, resolvedBy, resolvedEvent,
                 reply, run, cliCalls, connOf,
                 logger, initPc, timers, sendVars, sessVars, cacheVars, lastEvent, sinceArrival,
                 gapBefore, requests>>

(* -------------------------- the chat waiter ---------------------------- *)
\* The value the handler passes to resolve for a terminal payload:
\* text?.trim() || null of a final frame, the abort notice, or the mark and
\* payload.errorMessage || the default text.
ReplyOfUntrimmed(e) ==
  CASE e.state = "final" -> IF e.message = <<>> THEN Null ELSE e.message
    [] e.state = "aborted" -> AbortNotice
    [] e.state = "error" ->
         ErrorMark \o (IF e.errorMessage = <<>> THEN DefaultError ELSE e.errorMessage)
ReplyOf(e) ==
  CASE e.state = "final" -> IF Trim(e.message) = <<>> THEN Null ELSE Trim(e.message)
    [] e.state = "aborted" -> AbortNotice
    [] e.state = "error" ->
         ErrorMark \o (IF e.errorMessage = <<>> THEN DefaultError ELSE e.errorMessage)

\* Handlers the instances call for an inbound 'chat' frame: each connected
\* instance calls the entry of its eventHandlers Map, if there is one.

\* the callback of index.ts:668-688 reaches cleanup(); resolve(...)
Completes(h, e) ==
  /\ \E c \in C : connState[c] = "Connected" /\ eventHandlers[c] = h
  /\ SessionMatches(e.sessionKey, sessionKey[h])
  /\ e.state \in {"final", "aborted", "error"}

\* the payload of a chat event of run r: text is the message of a delta or
\* final frame and the errorMessage of an error frame
ChatPayload(r, st, prefixed, text) ==
  [sessionKey |-> IF prefixed THEN AgentPrefix \o sessionKey[r] ELSE sessionKey[r],
   run |-> r, state |-> st,
   message |-> IF st \in {"delta", "final"} THEN text ELSE <<>>,
   errorMessage |-> IF st = "error" THEN text ELSE <<>>]

\* the texts a frame of state st may carry
TextsOf(st) ==
  CASE st \in {"delta", "final"} -> { <<>>, <<" ">>, <<"t">>, <<" ", "t", " ">> }
    [] st = "error" -> { <<>>, <<"e">> }
    [] OTHER -> {<<>>}

\* ... and those of the frames where the text is not looked at: a final
\* frame with or without text, an error frame with its message
PlainTextsOf(st) ==
  CASE st = "final" -> {<<>>, <<"t">>}
    [] st = "error" -> {<<"e">>}
    [] OTHER -> {<<>>}

\* The gateway emits a chat event of run r; every connected instance
\* dispatches it to the callback in its eventHandlers Map.
EmitChat(r, st, prefixed, text) ==
  /\ run[r] = "running"
  /\ text \in TextsOf(st)
  /\ LET e == ChatPayload(r, st, prefixed, text) IN
     /\ run' = [run EXCEPT ![r] = IF st \in {"final", "aborted", "error"} THEN "ended" ELSE @]
     /\ timeout' = [h \in H |-> IF Completes(h, e) THEN FALSE ELSE timeout[h]]
     /\ eventHandlers' = [c \in C |->
            IF \E h \in H : Completes(h, e) /\ gw[h] = c THEN 0 ELSE eventHandlers[c]]
     /\ resolveCount' = [h \in H |->
            IF Completes(h, e) THEN resolveCount[h] + 1 ELSE resolveCount[h]]
     /\ resolvedBy' = [h \in H |->
            IF Completes(h, e) /\ resolveCount[h] = 0 THEN "event" ELSE resolvedBy[h]]
     /\ resolvedEvent' = [h \in H |->
            IF Completes(h, e) /\ resolveCount[h] = 0
            THEN [sessionKey |-> e.sessionKey, run |-> e.run] ELSE resolvedEvent[h]]
     /\ reply' = [h \in H |->
            IF Completes(h, e) /\ resolveCount[h] = 0 THEN ReplyOf(e) ELSE reply[h]]
  /\ UNCHANGED <<gatewayClient, created, connState, pc, sessionKey, gw, registered,
                 replies, cliCalls, connOf,
                 logger, initPc, timers, sendVars, sinceArrival, gapBefore, requests>>

ServerEvent(r, st, prefixed, text) ==
  /\ EmitChat(r, st, prefixed, text)
  /\ UNCHANGED auxVars

\* the chat events counted while the waiters are observed
MaxEvents == 3

\* ... the same, with the payload kept for the formulas about it
ChatEvent(r, st, prefixed, text) ==
  /\ lastEvent.n < MaxEvents
  /\ EmitChat(r, st, prefixed, text)
  /\ lastEvent' = [n |-> lastEvent.n + 1, payload |-> ChatPayload(r, st, prefixed, text)]
  /\ UNCHANGED <<sessVars, cacheVars, cliOutcome>>

\* setTimeout(() => { cleanup(); resolve(null); }, 180000) fires. With gw
\* null, cleanup() throws before resolve is reached.
TimeoutFires(h) ==
  /\ timeout[h]
  /\ timeout' = [timeout EXCEPT ![h] = FALSE]
  /\ IF gw[h] = 0
     THEN UNCHANGED <<eventHandlers, resolveCount, resolvedBy>>
     ELSE /\ eventHandlers' = [eventHandlers EXCEPT ![gw[h]] = 0]
          /\ resolveCount' = [resolveCount EXCEPT ![h] = @ + 1]
          /\ resolvedBy' = [resolvedBy EXCEPT ![h] = IF resolveCount[h] = 0
                                                    THEN "timeout" ELSE @]
  /\ UNCHANGED <<gatewayClient, created, connState, pc, sessionKey, gw, registered,
                 resolvedEvent, reply, run, replies, cliCalls, connOf,
                 logger, initPc, timers, sendVars, auxVars, sinceArrival, gapBefore, requests>>

(* ------------------ connection events (spec.md 4.1) -------------------- *)
\* the socket opens and the challenge is answered
ConnectOpen(c) ==
  /\ connState[c] = "Connecting"
  /\ connState' = [connState EXCEPT ![c] = "Authenticating"]
  /\ UNCHANGED <<gatewayClient, created, eventHandlers, pc, sessionKey, gw, timeout,
                 registered, resolveCount, resolvedBy, resolvedEvent, reply, run,
                 replies, cliCalls, connOf,
                 logger, initPc, timers, sendVars, auxVars, sinceArrival, gapBefore, requests>>

\* the auth-accept frame: connect() resolves for everyone awaiting it
AuthAccept(c) ==
  /\ connState[c] = "Authenticating"
  /\ connState' = [connState EXCEPT ![c] = "Connected"]
  /\ pc' = [h \in H |-> IF pc[h] = "connecting" /\ connOf[h] = c
                        THEN "connected" ELSE pc[h]]
  /\ connOf' = [h \in H |-> IF connOf[h] = c THEN 0 ELSE connOf[h]]
  /\ timers' = TimersAfterAccept(c)
  /\ UNCHANGED <<gatewayClient, created, eventHandlers, sessionKey, gw, timeout,
                 registered, resolveCount, resolvedBy, resolvedEvent, reply, run,
                 replies, cliCalls,
                 logger, initPc, sendVars, auxVars, sinceArrival, gapBefore, requests>>

\* The connection is lost: pending requests fail with ConnectionLost. The
\* callbacks in eventHandlers have no failure channel; whether the instance
\* forgets them is left open (drop).
Lose(c, drop) ==
  /\ connState' = [connState EXCEPT ![c] = "Reconnecting"]
  /\ pc' = PcAfterLoss(c)
  /\ connOf' = ConnOfAfterLoss(c)
  /\ eventHandlers' = [eventHandlers EXCEPT ![c] = IF drop THEN 0 ELSE @]
  /\ timers' = TimersAfterLoss(c)
  /\ UNCHANGED <<gatewayClient, created, sessionKey, gw, timeout, registered,
                 resolveCount, resolvedBy, resolvedEvent, reply, run, replies,
                 cliCalls, logger, initPc, sendVars, auxVars, sinceArrival, gapBefore, requests>>

\* the socket closes or errors at any point after Connecting was entered
SocketLost(c, drop) ==
  /\ connState[c] \in {"Connecting", "Authenticating", "Connected"}
  /\ Lose(c, drop)

\* the reconnect delay has passed: the machine re-enters Connecting
ReconnectTimerFires(c) ==
  /\ connState[c] = "Reconnecting"
  /\ timers[c].reconnectLeft = 0
  /\ connState' = [connState EXCEPT ![c] = "Connecting"]
  /\ timers' = [timers EXCEPT ![c].reconnectLeft = -1]
  /\ UNCHANGED <<gatewayClient, created, eventHandlers, pc, sessionKey, gw, timeout,
                 registered, resolveCount, resolvedBy, resolvedEvent, reply, run,
                 replies, cliCalls, connOf, logger, initPc, sendVars, auxVars, sinceArrival,
                 gapBefore, requests>>

\* Where no formula measures time, the whole reconnect delay passes in one
\* step.
DelayElapses(c) ==
  /\ timers[c].reconnectLeft > 0
  /\ timers' = [timers EXCEPT ![c].reconnectLeft = 0,
                              ![c].sinceLost = ReconnectDelayMs]
  /\ UNCHANGED <<gatewayClient, created, connState, eventHandlers, pc, sessionKey,
                 gw, timeout, registered, resolveCount, resolvedBy, resolvedEvent,
                 reply, run, replies, cliCalls, connOf, logger, initPc, sendVars, auxVars,
                 sinceArrival, gapBefore, requests>>

(* -------------------------- heartbeat (spec.md 4.1) -------------------- *)
\* every 15 s a ping is sent
PingDue(c) ==
  /\ connState[c] = "Connected"
  /\ timers[c].pingLeft = 0
  /\ timers' = [timers EXCEPT ![c].pingLeft = HeartbeatMs, ![c].pinged = TRUE]
  /\ UNCHANGED <<gatewayClient, created, connState, eventHandlers, pc, sessionKey,
                 gw, timeout, registered, resolveCount, resolvedBy, resolvedEvent,
                 reply, run, replies, cliCalls, connOf, logger, initPc, sendVars, auxVars,
                 sinceArrival, gapBefore, requests>>

\* the pong of a ping is observed: lastPongAt is now
Pong(c) ==
  /\ connState[c] = "Connected"
  /\ timers[c].pinged
  /\ timers' = [timers EXCEPT ![c].pinged = FALSE, ![c].pongLeft = PongTimeoutMs]
  /\ UNCHANGED <<gatewayClient, created, connState, eventHandlers, pc, sessionKey,
                 gw, timeout, registered, resolveCount, resolvedBy, resolvedEvent,
                 reply, run, replies, cliCalls, connOf, logger, initPc, sendVars, auxVars,
                 sinceArrival, gapBefore, requests>>

\* no pong was observed for 30 s
PongTimeout(c) ==
  /\ connState[c] = "Connected"
  /\ timers[c].pongLeft = 0
  /\ \E drop \in BOOLEAN : Lose(c, drop)

(* --------------------------- plugin hooks ------------------------------ *)
\* if (gatewayClient) { gatewayClient.disconnect(); gatewayClient = null; }
DropGatewayForgets ==
  /\ UNCHANGED <<connState, pc, connOf, timers>>
  /\ gatewayClient' = 0
DropGateway ==
  /\ IF gatewayClient # 0
     THEN /\ connState' = StateAfterDisconnect(gatewayClient)
          /\ pc' = PcAfterLoss(gatewayClient)
          /\ connOf' = ConnOfAfterLoss(gatewayClient)
          /\ timers' = TimersAfterDisconnect(gatewayClient)
     ELSE UNCHANGED <<connState, pc, connOf, timers>>
  /\ gatewayClient' = 0

\* plugin_set_config: currentConfig is replaced, the client dropped, the
\* configuration saved, startCacheCleanup()
SetConfigHook(enabled) ==
  /\ cacheEnabled' = enabled
  /\ DropGateway
  /\ startCacheCleanup(enabled)
  /\ UNCHANGED <<created, eventHandlers, sessionKey, gw, timeout, registered,
                 resolveCount, resolvedBy, resolvedEvent, reply, run, replies,
                 cliCalls, logger, initPc, sendVars, sessVars, cacheFiles, now, dl,
                 mediaLines, lastPut, lastSweep, cacheDir,
                 cliOutcome, lastEvent, sinceArrival, gapBefore, requests>>

\* plugin_cleanup: stopCacheCleanup(), the client dropped
CleanupHook ==
  /\ stopCacheCleanup
  /\ DropGateway
  /\ UNCHANGED <<created, eventHandlers, sessionKey, gw, timeout, registered,
                 resolveCount, resolvedBy, resolvedEvent, reply, run, replies,
                 cliCalls, logger, initPc, sendVars, sessVars, cacheEnabled,
                 cacheFiles, now, dl,
                 mediaLines, lastPut, lastSweep, cacheDir, cliOutcome, lastEvent, sinceArrival, gapBefore,
                 requests>>

\* a configuration that leaves media.cacheEnabled as it is
plugin_set_config == SetConfigHook(cacheEnabled) /\ UNCHANGED lastOp

plugin_cleanup == CleanupHook /\ UNCHANGED lastOp

(* ------------------------------ sendReply ------------------------------ *)
\* One completed ctx.actions.call that sends a message is logged with the
\* time since the one completed before it.
Logged(s) ==
  /\ sendLog' = Append(sendLog, [by |-> s, gap |-> sinceSend])
  /\ sinceSend' = 0

\* after the text part: the loop over mediaFiles, or the end
PhaseAfterText(left) == IF left > 0 THEN "media" ELSE "done"

\* sendReply is called and runs to its first await: the call that sends the
\* text (the whole of it, or its first chunk) or else the first media file
CallSendReply(s, len, media) ==
  /\ sender[s].phase = "idle"
  /\ submitted' = Append(submitted, s)
  /\ sender' = [sender EXCEPT ![s] =
       [phase |-> IF len > 0 THEN "text" ELSE PhaseAfterText(media),
        textLen |-> len, i |-> 0, mediaLeft |-> media, wakeLeft |-> -1]]
  /\ UNCHANGED sendLog
  /\ UNCHANGED sinceSend

\* the call for the text at offset i returns; when text remains after this
\* chunk, await sleep(1000)
TextCallReturns(s) ==
  /\ sender[s].phase = "text"
  /\ Logged(s)
  /\ sender' = [sender EXCEPT ![s] =
       IF sender[s].i + maxLen < sender[s].textLen
       THEN [@ EXCEPT !.phase = "sleep", !.wakeLeft = ChunkSleepMs]
       ELSE [@ EXCEPT !.phase = PhaseAfterText(sender[s].mediaLeft)]]
  /\ UNCHANGED submitted

\* the call for the text throws: sendReply rejects
TextCallThrows(s) ==
  /\ sender[s].phase = "text"
  /\ sender' = [sender EXCEPT ![s].phase = "thrown"]
  /\ UNCHANGED <<submitted, sendLog, sinceSend>>

\* sleep(1000) is over: i += maxLen and the next chunk is sent
Wake(s) ==
  /\ sender[s].phase = "sleep"
  /\ sender[s].wakeLeft = 0
  /\ sender' = [sender EXCEPT ![s] =
       [@ EXCEPT !.phase = "text", !.i = @ + maxLen, !.wakeLeft = -1]]
  /\ UNCHANGED <<submitted, sendLog, sinceSend>>

\* the call for a media file returns, or throws into the loop's own catch
MediaCallEnds(s, ok) ==
  /\ sender[s].phase = "media"
  /\ IF ok THEN Logged(s) ELSE UNCHANGED <<sendLog, sinceSend>>
  /\ sender' = [sender EXCEPT ![s] =
       [@ EXCEPT !.mediaLeft = @ - 1,
                 !.phase = PhaseAfterText(sender[s].mediaLeft - 1)]]
  /\ UNCHANGED submitted

SendStep(s) ==
  /\ \/ \E len \in {0, maxLen, maxLen + 1}, media \in 0..MaxMedia : CallSendReply(s, len, media)
     \/ TextCallReturns(s)
     \/ TextCallThrows(s)
     \/ Wake(s)
     \/ \E ok \in BOOLEAN : MediaCallEnds(s, ok)
  /\ UNCHANGED <<gatewayClient, created, connState, eventHandlers, pc, sessionKey,
                 gw, timeout, registered, resolveCount, resolvedBy, resolvedEvent,
                 reply, run, replies, cliCalls, connOf, logger, initPc, timers,
                 sinceArrival, gapBefore, requests, auxVars>>

(* -------------------------------- time --------------------------------- *)
\* TickMs pass. A timer that is due fires before time goes on.
Tick ==
  /\ \A c \in C : /\ timers[c].reconnectLeft # 0
                  /\ timers[c].pingLeft # 0
                  /\ timers[c].pongLeft # 0
  /\ \A s \in Concurrent : sender[s].wakeLeft # 0
  /\ timers' = [c \in C |->
       [reconnectLeft |-> Down(timers[c].reconnectLeft),
        pingLeft |-> Down(timers[c].pingLeft),
        pongLeft |-> Down(timers[c].pongLeft),
        pinged |-> timers[c].pinged,
        sinceLost |-> Up(timers[c].sinceLost, ReconnectDelayMs + TickMs)]]
  /\ sender' = [s \in Concurrent |-> [sender[s] EXCEPT !.wakeLeft = Down(@)]]
  /\ sinceSend' = Up(sinceSend, RateLimitMs)
  /\ sinceArrival' = [k \in SessionKeys |-> Up(sinceArrival[k], DebounceMs + TickMs)]
  /\ UNCHANGED <<gatewayClient, created, connState, eventHandlers, pc, sessionKey,
                 gw, timeout, registered, resolveCount, resolvedBy, resolvedEvent,
                 reply, run, replies, cliCalls, connOf, logger, initPc, submitted, sendLog,
                 gapBefore, requests, auxVars>>

(* --------------------------- specifications ---------------------------- *)
HandlerStep(h) ==
  \/ \E k \in KeysOf(h) : Arrive(h, k)
  \/ CallGetGateway(h)
  \/ ReturnGateway(h)
  \/ RegisterAndSend(h)
  \/ RequestOk(h)
  \/ RequestFails(h)
  \/ ReplyResolved(h)
  \/ SendReply(h)
  \/ SendReplyThrows(h)
  \/ Catch(h)
  \/ \E out \in {"text", "empty", "throws"} : FallbackReturns(h, out)
  \/ TimeoutFires(h)

GatewayStep ==
  \/ \E r \in Concurrent, st \in EventStates, prefixed \in BOOLEAN :
       \E text \in PlainTextsOf(st) : ServerEvent(r, st, prefixed, text)
  \/ \E c \in C : ConnectOpen(c)
  \/ \E c \in C : AuthAccept(c)
  \/ \E c \in C, drop \in BOOLEAN : SocketLost(c, drop)
  \/ \E c \in C : DelayElapses(c)
  \/ \E c \in C : ReconnectTimerFires(c)

\* The plugin with its gateway, handlers, waiters and hooks; time is left
\* out, every timer may fire whenever it is armed.
Next ==
  \/ plugin_init
  \/ \E h \in Concurrent : HandlerStep(h)
  \/ GatewayStep
  \/ plugin_set_config
  \/ plugin_cleanup

Spec == Init /\ [][Next]_vars

\* The connection of the module's client under reconnect-triggering events,
\* with time. Timers fire when they are due.
NextConn ==
  \/ plugin_init
  \/ \E c \in C : ConnectOpen(c)
  \/ \E c \in C : AuthAccept(c)
  \/ \E c \in C, drop \in BOOLEAN : SocketLost(c, drop)
  \/ \E c \in C : PingDue(c)
  \/ \E c \in C : Pong(c)
  \/ \E c \in C : PongTimeout(c)
  \/ \E c \in C : ReconnectTimerFires(c)
  \/ Tick

SpecConn ==
  /\ Init
  /\ [][NextConn]_vars
  /\ WF_vars(Tick)
  /\ \A c \in C : WF_vars(ReconnectTimerFires(c))

\* Calls of sendReply, with time
NextSend ==
  \/ \E s \in Concurrent : SendStep(s)
  \/ Tick

SpecSend == Init /\ [][NextSend]_vars

\* Messages arriving over time, each handled up to its chat.send request,
\* until the first ping of the connection is due
NextDebounce ==
  \/ plugin_init
  \/ \E h \in H : \E k \in KeysOf(h) : Arrive(h, k)
  \/ \E h \in H : CallGetGateway(h)
  \/ \E h \in H : ReturnGateway(h)
  \/ \E h \in H : RegisterAndSend(h)
  \/ \E c \in C : ConnectOpen(c)
  \/ \E c \in C : AuthAccept(c)
  \/ Tick

SpecDebounce == Init /\ [][NextDebounce]_vars

\* Requests that are accepted and their chat events, payload by payload;
\* connections are not lost and nothing is reconfigured
NextWaiter ==
  \/ plugin_init
  \/ \E c \in C : ConnectOpen(c)
  \/ \E c \in C : AuthAccept(c)
  \/ \E h \in Concurrent : \E k \in KeysOf(h) : Arrive(h, k)
  \/ \E h \in Concurrent : CallGetGateway(h)
  \/ \E h \in Concurrent : ReturnGateway(h)
  \/ \E h \in Concurrent : RegisterAndSend(h)
  \/ \E h \in Concurrent : RequestOk(h)
  \/ \E r \in Concurrent, st \in EventStates, prefixed \in BOOLEAN :
       \E text \in TextsOf(st) : ChatEvent(r, st, prefixed, text)
  \/ \E h \in Concurrent : TimeoutFires(h)
  \/ \E h \in Concurrent : ReplyResolved(h)
  \/ \E h \in Concurrent : SendReply(h)

SpecWaiter == Init /\ [][NextWaiter]_vars

(* ------------------- session keys (index.ts:132-166) ------------------- *)
\* user and group numbers of the events
MaxId == 2
\* the largest epoch an entry of sessionEpochs holds
MaxEpoch == 2

Ids == 1..MaxId
GroupSessionModes == {"user", "shared"}

\* the events that pass the filters: a private message has no group
Events ==
  [messageType : {"private"}, userId : Ids, groupId : {0}]
    \cup [messageType : {"group"}, userId : Ids, groupId : Ids]

\* `${n}` of a non-negative integer: its decimal digits
DigitChars == <<"0", "1", "2", "3", "4", "5", "6", "7", "8", "9">>
RECURSIVE Str(_)
Str(n) == IF n < 10 THEN <<DigitChars[n + 1]>>
          ELSE Str(n \div 10) \o <<DigitChars[(n % 10) + 1]>>

\* getSessionBase under a given value of groupSessionMode
getSessionBaseInOneMode(mode, messageType, userId, groupId) ==
  IF messageType = "private" THEN <<"q", "q", "-">> \o Str(userId)
  ELSE <<"q", "q", "-", "g">> \o Str(groupId) \o <<"-">> \o Str(userId)
getSessionBaseIn(mode, messageType, userId, groupId) ==
  IF messageType = "private" THEN <<"q", "q", "-">> \o Str(userId)
  ELSE IF mode = "shared" THEN <<"q", "q", "-", "g">> \o Str(groupId)
  ELSE <<"q", "q", "-", "g">> \o Str(groupId) \o <<"-">> \o Str(userId)

getSessionBase(messageType, userId, groupId) ==
  getSessionBaseIn(groupSessionMode, messageType, userId, groupId)

\* every base an event can have, in either mode
Bases == { getSessionBaseIn(m, e.messageType, e.userId, e.groupId) :
             m \in GroupSessionModes, e \in Events }

\* sessionEpochs.get(sessionBase) || 0
EpochOr0(sessionBase) ==
  IF sessionBase \in DOMAIN sessionEpochs THEN sessionEpochs[sessionBase] ELSE 0

getSessionKeyFromZero(sessionBase) ==
  LET epoch == EpochOr0(sessionBase) IN
  IF epoch >= 0 THEN sessionBase \o <<"-">> \o Str(epoch) ELSE sessionBase
getSessionKey(sessionBase) ==
  LET epoch == EpochOr0(sessionBase) IN
  IF epoch > 0 THEN sessionBase \o <<"-">> \o Str(epoch) ELSE sessionBase

\* the lines of the /whoami reply that depend on the event
cmdWhoami(sessionBase, userId, messageType, groupId) ==
  LET epoch == EpochOr0(sessionBase)
      whoamiKey == IF epoch > 0 THEN sessionBase \o <<"-">> \o Str(epoch)
                   ELSE sessionBase IN
  [qq |-> Str(userId),
   type |-> IF messageType = "private" THEN <<"private">>
            ELSE <<"group", "(">> \o Str(groupId) \o <<")">>,
   session |-> <<"Session: ">> \o whoamiKey]

LOCAL_COMMANDS == {"/help", "/whoami"}
\* the commands the help text lists under Session that start a new dialogue
ResetCommands == {"/new", "/clear"}

\* plugin_onmessage as far as the session key goes: the base of the event,
\* then a local command answered from the table, or else the key the
\* message is sent under. No path writes sessionEpochs.
OnMessage(e, text) ==
  LET sessionBase == getSessionBase(e.messageType, e.userId, e.groupId)
      key == IF text = "/whoami"
             THEN Tail(cmdWhoami(sessionBase, e.userId, e.messageType, e.groupId).session)
             ELSE getSessionKey(sessionBase) IN
  /\ inbound' = [messageType |-> e.messageType, userId |-> e.userId,
                 groupId |-> e.groupId, text |-> text, sessionBase |-> sessionBase]
  /\ keysReturned' = IF text = "/help" THEN keysReturned
                     ELSE keysReturned \cup {<<sessionBase, key>>}
  /\ UNCHANGED <<groupSessionMode, sessionEpochs, keyArgs, keyRet>>
  /\ UNCHANGED <<pluginVars, cacheVars, lastEvent>>

\* The session registry of a loaded plugin under inbound messages
InitSession ==
  /\ InitPlugin
  /\ InitCacheIdle
  /\ groupSessionMode \in GroupSessionModes
  /\ sessionEpochs = EmptyMap
  /\ inbound = NoMsg
  /\ keysReturned = {}
  /\ keyArgs = <<>>
  /\ keyRet = NoRet

NextSession ==
  \E e \in Events, text \in {"hello"} \cup LOCAL_COMMANDS \cup ResetCommands :
    OnMessage(e, text)

SpecSession == InitSession /\ [][NextSession]_vars

\* The session functions applied to two events, for every mode and for a

InitKey ==
  /\ InitPlugin
  /\ InitCacheIdle
  /\ groupSessionMode \in GroupSessionModes
  /\ sessionEpochs \in {EmptyMap} \cup { [b \in {base} |-> n] : base \in Bases, n \in 0..MaxEpoch }
  /\ keyArgs \in Events \X Events
  /\ keyRet = NoRet
  /\ inbound = NoMsg
  /\ keysReturned = {}

ComputeKeys ==
  /\ keyRet = NoRet
  /\ LET a == keyArgs[1]
         b == keyArgs[2]
         baseA == getSessionBase(a.messageType, a.userId, a.groupId) IN
     keyRet' = [done |-> TRUE,
                baseA |-> baseA,
                baseB |-> getSessionBase(b.messageType, b.userId, b.groupId),
                keyA |-> getSessionKey(baseA),
                whoamiA |-> cmdWhoami(baseA, a.userId, a.messageType, a.groupId)]
  /\ UNCHANGED <<groupSessionMode, sessionEpochs, inbound, keysReturned, keyArgs>>
  /\ UNCHANGED <<pluginVars, cacheVars, lastEvent>>

NextKey == ComputeKeys

SpecKey == InitKey /\ [][NextKey]_vars

(* -------------------- media cache (index.ts:32-110) -------------------- *)
\* buf.length of a download: half the cap, or a byte more than the cap
Sizes == {maxBytes \div 2, maxBytes + 1}

RECURSIVE SumOfSizes(_)
SumOfSizes(files) ==
  IF files = {} THEN 0
  ELSE LET f == CHOOSE x \in files : TRUE IN f.size + SumOfSizes(files \ {f})

\* getCacheDirSize(): the sizes of the directory's files added up
getCacheDirSizeBeforeLastPut == SumOfSizes(lastPut.before)
getCacheDirSize == IF ~cacheDir THEN 0 ELSE SumOfSizes(cacheFiles)

Range(seq) == { seq[i] : i \in 1..Len(seq) }
Names(files) == { f.name : f \in files }
\* the files whose statSync or unlinkSync throws in one call: none or one
FailureSets(files) == {{}} \cup { {name} : name \in Names(files) }

\* files.sort((a, b) => a.mtimeMs - b.mtimeMs) of readdirSync in any
\* enumeration order: the listings in non-decreasing mtimeMs
SortedListings(files) ==
  { order \in [1..Cardinality(files) -> files] :
      /\ \A f \in files : \E i \in 1..Cardinality(files) : order[i] = f
      /\ \A i, j \in 1..Cardinality(files) : i < j => order[i].mtimeMs <= order[j].mtimeMs }

\* The loop of evictOldestFiles from position i on: stop when the write
\* fits; a file whose unlinkSync throws is skipped and stays.
RECURSIVE EvictLoop(_, _, _, _, _)
EvictLoop(order, i, currentSize, needBytes, fails) ==
  IF i > Len(order) \/ currentSize + needBytes <= maxBytes
  THEN [removed |-> <<>>, currentSize |-> currentSize]
  ELSE IF order[i].name \in fails
       THEN EvictLoop(order, i + 1, currentSize, needBytes, fails)
       ELSE LET rest == EvictLoop(order, i + 1, currentSize - order[i].size,
                                  needBytes, fails) IN
            [removed |-> <<order[i]>> \o rest.removed, currentSize |-> rest.currentSize]

\* evictOldestFiles(needBytes): what it removes, in order, and its final
\* currentSize
evictOldestFiles(needBytes, order, fails) ==
  LET currentSize == getCacheDirSize IN
  IF ~cacheDir \/ currentSize + needBytes <= maxBytes
  THEN [removed |-> <<>>, currentSize |-> currentSize]
  ELSE EvictLoop(order, 1, currentSize, needBytes, fails)

\* now - fs.statSync(fp).mtimeMs > ttlMs
ExpiredOrAtTTL(f) == now - f.mtimeMs >= ttlMs
Expired(f) == now - f.mtimeMs > ttlMs

\* the url of the media of message h, and the path of its cached copy
UrlOf(h) == <<"http://", h>>
PathOf(h) == <<"cache/", h>>

\* the line of mediaLines for one media item (index.ts:633-638)
MediaLineAlwaysLocal(url, localPath) == <<"file://">> \o localPath
MediaLine(url, localPath) ==
  IF localPath # NoPath THEN <<"file://">> \o localPath ELSE url

\* A message with one media item passed the filters. With caching on,
\* downloadMedia runs up to await fetch(url); with caching off the media is
\* referenced by its url and the handler goes on to getGateway().
ArriveMedia(h, k) ==
  /\ logger
  /\ pc[h] = "init"
  /\ \A g \in H : g < h => pc[g] # "init"
  /\ sessionKey' = [sessionKey EXCEPT ![h] = k]
  /\ gapBefore' = [gapBefore EXCEPT ![h] = sinceArrival[k]]
  /\ sinceArrival' = [sinceArrival EXCEPT ![k] = 0]
  /\ IF cacheEnabled
     THEN /\ pc' = [pc EXCEPT ![h] = "media"]
          /\ dl' = [dl EXCEPT ![h].pc = "fetch"]
          /\ cacheDir' = TRUE
          /\ UNCHANGED mediaLines
     ELSE /\ pc' = [pc EXCEPT ![h] = "gateway"]
          /\ mediaLines' = [mediaLines EXCEPT ![h] = <<MediaLine(UrlOf(h), NoPath)>>]
          /\ UNCHANGED <<dl, cacheDir>>
  /\ UNCHANGED <<gatewayClient, created, connState, eventHandlers, gw, timeout,
                 registered, resolveCount, resolvedBy, resolvedEvent, reply, run,
                 replies, cliCalls, cliOutcome, connOf, logger, initPc, timers, sendVars, requests,
                 sessVars, lastEvent, cacheEnabled, cacheFiles, now, sweepLeft, liveTimers, lastPut, lastSweep,
                 lastOp>>

\* fetch resolved with res.ok: await res.arrayBuffer()
FetchOk(h) ==
  /\ dl[h].pc = "fetch"
  /\ dl' = [dl EXCEPT ![h].pc = "buffer"]
  /\ UNCHANGED <<pluginVars, sessVars, lastEvent, cacheEnabled, cacheFiles, now, sweepLeft, liveTimers,
                 mediaLines, lastPut, lastSweep, cacheDir, lastOp>>

\* fetch threw or res.ok is false, or arrayBuffer() threw: downloadMedia
\* returns null and the media line holds the url
DownloadFails(h) ==
  /\ dl[h].pc \in {"fetch", "buffer"}
  /\ dl' = [dl EXCEPT ![h].pc = "null"]
  /\ mediaLines' = [mediaLines EXCEPT ![h] = <<MediaLine(UrlOf(h), NoPath)>>]
  /\ pc' = [pc EXCEPT ![h] = "gateway"]
  /\ UNCHANGED <<gatewayClient, created, connState, eventHandlers, sessionKey, gw,
                 timeout, registered, resolveCount, resolvedBy, resolvedEvent,
                 reply, run, replies, cliCalls, cliOutcome, connOf, logger, initPc, timers, sendVars,
                 sinceArrival, gapBefore, requests,
                 sessVars, lastEvent, cacheEnabled, cacheFiles, now, sweepLeft, liveTimers, lastPut, lastSweep,
                 cacheDir, lastOp>>

\* The bytes are in: evictOldestFiles(buf.length) and writeFileSync run with
\* no await between them; writeFileSync may throw into downloadMedia's catch.
\* Then the handler builds its media line.
PutFile(h, size, order, fails, writeOk) ==
  /\ dl[h].pc = "buffer"
  /\ LET ev == evictOldestFiles(size, order, fails)
         kept == cacheFiles \ Range(ev.removed)
         file == [name |-> h, mtimeMs |-> now, size |-> size]
         localPath == IF writeOk THEN PathOf(h) ELSE NoPath IN
     /\ cacheFiles' = IF writeOk THEN kept \cup {file} ELSE kept
     /\ lastPut' = [by |-> h, need |-> size, before |-> cacheFiles,
                    removed |-> ev.removed, seen |-> ev.currentSize,
                    wrote |-> writeOk, after |-> cacheFiles']
     /\ dl' = [g \in H |->
          IF g = h THEN [dl[h] EXCEPT !.pc = IF writeOk THEN "cached" ELSE "null",
                                      !.path = localPath]
          ELSE IF dl[g].pc \in {"fetch", "buffer"}
               THEN [dl[g] EXCEPT !.overlapped = TRUE] ELSE dl[g]]
     /\ mediaLines' = [mediaLines EXCEPT ![h] = <<MediaLine(UrlOf(h), localPath)>>]
  /\ pc' = [pc EXCEPT ![h] = "gateway"]
  /\ UNCHANGED <<gatewayClient, created, connState, eventHandlers, sessionKey, gw,
                 timeout, registered, resolveCount, resolvedBy, resolvedEvent,
                 reply, run, replies, cliCalls, cliOutcome, connOf, logger, initPc, timers, sendVars,
                 sinceArrival, gapBefore, requests,
                 sessVars, lastEvent, cacheEnabled, now, sweepLeft, liveTimers, lastSweep, cacheDir, lastOp>>

\* the files cleanExpiredCache() leaves: all of them when there is no
\* directory, else those not expired and those whose stat or unlink throws
LeftBySweep(fails) ==
  IF ~cacheDir THEN cacheFiles
  ELSE { f \in cacheFiles : ~(Expired(f) /\ f.name \notin fails) }

\* The interval fires: cleanExpiredCache(). A file whose statSync or
\* unlinkSync throws is skipped; the interval stays set.
cleanExpiredCache(fails) ==
  /\ sweepLeft = 0
  /\ cacheFiles' = LeftBySweep(fails)
  /\ lastSweep' = [done |-> TRUE, before |-> cacheFiles, at |-> now,
                   failed |-> { f \in cacheFiles : Expired(f) /\ f.name \in fails },
                   after |-> cacheFiles']
  /\ sweepLeft' = ttlMs
  /\ UNCHANGED <<pluginVars, sessVars, lastEvent, cacheEnabled, now, dl, mediaLines, lastPut,
                 cacheDir, lastOp, liveTimers>>

\* CacheTickMs pass; an interval that is due fires first. The clock starts
\* when the plugin is initialised.
CacheTick ==
  /\ logger
  /\ sweepLeft # 0
  /\ now < MaxCacheTicks * CacheTickMs
  /\ now' = now + CacheTickMs
  /\ sweepLeft' = IF sweepLeft > 0 THEN sweepLeft - CacheTickMs ELSE sweepLeft
  /\ UNCHANGED <<pluginVars, sessVars, lastEvent, cacheEnabled, cacheFiles, dl, mediaLines,
                 lastPut, lastSweep, cacheDir, lastOp, liveTimers>>

\* The cache of a plugin whose saved configuration enables it, from the
\* completion of plugin_init on: downloads whose fetch succeeds and the
\* cleanup interval, with time. The pre-connect was accepted: the first
\* instance is Connected and its heartbeat runs.
InitCache ==
  /\ gatewayClient = 1
  /\ created = 1
  /\ connState = [c \in C |-> IF c = 1 THEN "Connected" ELSE "Disconnected"]
  /\ logger = TRUE
  /\ initPc = "done"
  /\ timers = [c \in C |-> IF c = 1
                            THEN [NoTimers EXCEPT !.pingLeft = HeartbeatMs,
                                                  !.pongLeft = PongTimeoutMs]
                            ELSE NoTimers]
  /\ InitHandlers
  /\ InitSessionIdle
  /\ cacheEnabled = TRUE
  /\ cacheFiles = {}
  /\ now = 0
  /\ sweepLeft = ttlMs
  /\ liveTimers = 1
  /\ dl = [h \in H |-> IdleDownload]
  /\ mediaLines = [h \in H |-> <<>>]
  /\ lastPut = NoPut
  /\ lastSweep = NoSweep
  /\ cacheDir = FALSE
  /\ lastOp = NoOp

NextCache ==
  \/ \E h \in H : \E k \in KeysOf(1) : ArriveMedia(h, k)
  \/ \E h \in H : FetchOk(h)
  \/ \E h \in H, size \in Sizes, writeOk \in BOOLEAN :
       \E order \in SortedListings(cacheFiles), fails \in FailureSets(cacheFiles) :
         PutFile(h, size, order, fails, writeOk)
  \/ \E fails \in FailureSets(cacheFiles) : cleanExpiredCache(fails)
  \/ CacheTick

SpecCache == InitCache /\ [][NextCache]_vars

(* ------------ the cache operations on their own (index.ts:41-80) ------- *)
\* try { ... } catch { /* skip */ }: what the body throws does not leave it
NotSwallowed(thrown) == thrown
Swallowed(thrown) == FALSE

\* fs.statSync or fs.unlinkSync of a file that another operation has removed
\* since the directory was read throws
StatThrows(f, gone) == f.name \in gone
UnlinkThrows(f, gone) == f.name \in gone

\* whether an exception leaves getCacheDirSize(), evictOldestFiles(n) and
\* cleanExpiredCache(): each returns at once when the directory is missing
\* and has every statSync and unlinkSync inside a try
getCacheDirSizeThrows(gone) ==
  cacheDir /\ \E f \in cacheFiles : Swallowed(StatThrows(f, gone))
evictOldestFilesThrows(needBytes, order, gone) ==
  /\ cacheDir
  /\ \/ getCacheDirSizeThrows(gone)
     \/ \E f \in cacheFiles : Swallowed(StatThrows(f, gone))
     \/ \E i \in 1..Len(order) : Swallowed(UnlinkThrows(order[i], gone))
cleanExpiredCacheThrows(gone) ==
  cacheDir /\ \E f \in cacheFiles :
                Swallowed(StatThrows(f, gone) \/ (Expired(f) /\ UnlinkThrows(f, gone)))

\* the files that are there when statSync is called
Present(gone) == { f \in cacheFiles : f.name \notin gone }

\* One of the three is called while the files in gone have just been removed
\* by another operation.
CallGetCacheDirSize(gone) ==
  /\ lastOp' = [op |-> "getCacheDirSize", dir |-> cacheDir, gone |-> gone,
                 before |-> cacheFiles, after |-> Present(gone),
                 threw |-> getCacheDirSizeThrows(gone),
                 value |-> IF ~cacheDir THEN 0 ELSE SumOfSizes(Present(gone))]
  /\ cacheFiles' = Present(gone)
  /\ UNCHANGED <<pluginVars, sessVars, lastEvent, cacheEnabled, now, sweepLeft, liveTimers, dl,
                 mediaLines, lastPut, lastSweep, cacheDir>>

CallEvictOldestFiles(needBytes, order, gone) ==
  /\ LET ev == evictOldestFiles(needBytes, order, gone) IN
     /\ cacheFiles' = Present(gone) \ Range(ev.removed)
     /\ lastOp' = [op |-> "evictOldestFiles", dir |-> cacheDir, gone |-> gone,
                    before |-> cacheFiles, after |-> cacheFiles',
                    threw |-> evictOldestFilesThrows(needBytes, order, gone),
                    value |-> needBytes]
  /\ UNCHANGED <<pluginVars, sessVars, lastEvent, cacheEnabled, now, sweepLeft, liveTimers, dl,
                 mediaLines, lastPut, lastSweep, cacheDir>>

CallCleanExpiredCache(gone) ==
  /\ cacheFiles' = Present(gone) \cap LeftBySweep(gone)
  /\ lastOp' = [op |-> "cleanExpiredCache", dir |-> cacheDir, gone |-> gone,
                 before |-> cacheFiles, after |-> cacheFiles',
                 threw |-> cleanExpiredCacheThrows(gone), value |-> now]
  /\ UNCHANGED <<pluginVars, sessVars, lastEvent, cacheEnabled, now, sweepLeft, liveTimers, dl,
                 mediaLines, lastPut, lastSweep, cacheDir>>

\* files of the directory: named 1 or 2, written at time 0 or just now
MaxFiles == 2
Directories ==
  { d \in SUBSET [name : 1..MaxFiles, mtimeMs : {0, 2 * ttlMs}, size : Sizes] :
      \A f, g \in d : f.name = g.name => f = g }

\* The directory is missing or holds any of these files, two TTLs after a
\* file of time 0 was written
InitDir ==
  /\ InitPlugin
  /\ InitSessionIdle
  /\ cacheEnabled = TRUE
  /\ cacheDir \in BOOLEAN
  /\ cacheFiles \in IF cacheDir THEN Directories ELSE {{}}
  /\ now = 2 * ttlMs
  /\ sweepLeft = -1
  /\ liveTimers = 0
  /\ dl = [h \in H |-> IdleDownload]
  /\ mediaLines = [h \in H |-> <<>>]
  /\ lastPut = NoPut
  /\ lastSweep = NoSweep
  /\ lastOp = NoOp

\* any set of the files may have been removed behind the operation's back
NextDir ==
  \/ \E gone \in SUBSET Names(cacheFiles) : CallGetCacheDirSize(gone)
  \/ \E gone \in SUBSET Names(cacheFiles), needBytes \in Sizes :
       \E order \in SortedListings(cacheFiles) :
         CallEvictOldestFiles(needBytes, order, gone)
  \/ \E gone \in SUBSET Names(cacheFiles) : CallCleanExpiredCache(gone)

SpecDir == InitDir /\ [][NextDir]_vars

(* ------------- the hooks and the cleanup interval on their own --------- *)
\* the hooks called so far are counted up to MaxHooks
MaxHooks == 4
HooksCalled ==
  IF lastOp.op \in {"plugin_init", "plugin_init_resume", "plugin_set_config",
                   "plugin_cleanup"}
  THEN lastOp.n ELSE 0

\* the hook that ran last, the intervals that were live when it began, and
\* media.cacheEnabled when it ended
HookRecord(op) ==
  [op |-> op, n |-> HooksCalled + 1, before |-> liveTimers, enabled |-> cacheEnabled']

CallPluginInit(saved) ==
  /\ HooksCalled < MaxHooks
  /\ InitHook(saved)
  /\ lastOp' = HookRecord("plugin_init")

CallPluginInitResume ==
  /\ HooksCalled < MaxHooks
  /\ InitResumeHook
  /\ lastOp' = HookRecord("plugin_init_resume")

CallPluginSetConfig(enabled) ==
  /\ HooksCalled < MaxHooks
  /\ SetConfigHook(enabled)
  /\ lastOp' = HookRecord("plugin_set_config")

CallPluginCleanup ==
  /\ HooksCalled < MaxHooks
  /\ CleanupHook
  /\ lastOp' = HookRecord("plugin_cleanup")

\* Any order of the hooks, with any media.cacheEnabled in the saved and in
\* the new configuration, the pre-connect of plugin_init being accepted or
\* cut off by a hook that drops the client, and the interval firing in time
NextTimer ==
  \/ \E saved \in BOOLEAN : CallPluginInit(saved)
  \/ CallPluginInitResume
  \/ \E enabled \in BOOLEAN : CallPluginSetConfig(enabled)
  \/ CallPluginCleanup
  \/ \E c \in C : ConnectOpen(c)
  \/ \E c \in C : AuthAccept(c)
  \/ \E fails \in FailureSets(cacheFiles) : cleanExpiredCache(fails)
  \/ CacheTick

SpecTimer == Init /\ [][NextTimer]_vars

\* Messages with media handled up to their chat.send request, caching on
\* or off
InitMedia ==
  /\ InitPlugin
  /\ InitSessionIdle
  /\ cacheEnabled \in BOOLEAN
  /\ cacheFiles = {}
  /\ now = 0
  /\ sweepLeft = -1
  /\ liveTimers = 0
  /\ dl = [h \in H |-> IdleDownload]
  /\ mediaLines = [h \in H |-> <<>>]
  /\ lastPut = NoPut
  /\ lastSweep = NoSweep
  /\ cacheDir = FALSE
  /\ lastOp = NoOp

NextMedia ==
  \/ plugin_init
  \/ plugin_init_resume
  \/ \E c \in C : ConnectOpen(c)
  \/ \E c \in C : AuthAccept(c)
  \/ \E h \in Concurrent : \E k \in KeysOf(h) : ArriveMedia(h, k)
  \/ \E h \in Concurrent : FetchOk(h)
  \/ \E h \in Concurrent : DownloadFails(h)
  \/ \E h \in Concurrent, size \in Sizes, writeOk \in BOOLEAN :
       \E order \in SortedListings(cacheFiles), fails \in FailureSets(cacheFiles) :
         PutFile(h, size, order, fails, writeOk)
  \/ \E h \in Concurrent : CallGetGateway(h)
  \/ \E h \in Concurrent : ReturnGateway(h)
  \/ \E h \in Concurrent : RegisterAndSend(h)

SpecMedia == InitMedia /\ [][NextMedia]_vars

(* ------------------------------ claims --------------------------------- *)
\* the waiter of h is the 'chat' entry of the instance it registered on
InTable(h) == gw[h] # 0 /\ eventHandlers[gw[h]] = h

\* C1: when a handler registers its waiter while a handler of another
\* session is registered, the earlier waiter stays registered.
C1_RegistrationKeepsOtherWaiters ==
  [][\A h1, h2 \in H :
       ( /\ h1 # h2
         /\ InTable(h1)
         /\ ~registered[h2] /\ registered'[h2]
         /\ sessionKey[h1] # sessionKey[h2] )
       => InTable(h1)']_vars

\* C2: when a waiter completes (terminal event or its timeout), every other
\* waiter registered at that moment stays registered.
C2_CleanupRemovesOnlyItself ==
  [][\A h1, h2 \in H :
       ( /\ h1 # h2
         /\ InTable(h1)
         /\ resolveCount'[h2] > resolveCount[h2]
         /\ resolveCount'[h1] = resolveCount[h1] )
       => InTable(h1)']_vars

\* C3: a registered waiter has resolved zero times while its timer is
\* armed and exactly once afterwards, and a waiter resolved by an event was
\* resolved by an event of its own session: the event's sessionKey is the
\* waiter's key or ends with ':' followed by it.
C3_ResolvesOnceNoCrossDelivery ==
  \A h \in H :
    /\ registered[h] =>
         \/ timeout[h] /\ resolveCount[h] = 0
         \/ ~timeout[h] /\ resolveCount[h] = 1
    /\ ~registered[h] => resolveCount[h] = 0
    /\ resolvedBy[h] = "event" =>
         /\ \/ resolvedEvent[h].sessionKey = sessionKey[h]
            \/ EndsWith(resolvedEvent[h].sessionKey, <<":">> \o sessionKey[h])
         /\ sessionKey[resolvedEvent[h].run] = sessionKey[h]

\* C3 witness: two requests of different sessions were registered, the
\* gateway ended both runs, the first handler's waiter was not resolved by
\* the other session's event and the second resolved from a prefixed key.
C3_Witness ==
  \E h1, h2 \in H :
    /\ sessionKey[h1] # sessionKey[h2]
    /\ registered[h1] /\ run[h1] = "ended" /\ resolvedBy[h1] # "event"
    /\ run[h2] = "ended" /\ resolvedBy[h2] = "event"
    /\ resolvedEvent[h2].sessionKey = AgentPrefix \o sessionKey[h2]

\* C4: a waiter resolved by an event was resolved by an event of the run
\* its own request started.
C4_ResolvedByOwnRun ==
  \A h \in H : resolvedBy[h] = "event" => resolvedEvent[h].run = h

\* C5: once an accepted request has timed out, its handler sends no reply,
\* its waiter is not registered, and the late terminal event of its run
\* resolves nothing and so causes no reply.
C5_TimeoutThenLateEventDropped ==
  [][\A h \in H :
       ( /\ resolvedBy[h] = "timeout"
         /\ cliCalls[h] = 0
         /\ pc[h] \in {"awaitReply", "done"} )
       => /\ replies'[h] = <<>>
          /\ ~InTable(h)'
          /\ (run[h] = "running" /\ run'[h] = "ended")
               => (resolveCount' = resolveCount /\ reply' = reply)]_vars

\* C6: when an instance leaves Connected (lost or disconnected), every
\* waiter registered on it is settled in that same step.
C6_WaitersFailWithConnection ==
  [][\A c \in C :
       (connState[c] = "Connected" /\ connState'[c] # "Connected")
       => \A h \in H : (registered[h] /\ gw[h] = c) => resolveCount'[h] >= 1]_vars

\* C7: under socket losses and missed pongs the connection state is always
\* one of the five enumerated; an instance leaves Reconnecting only for
\* Connecting and only when exactly ReconnectDelayMs have passed since the
\* loss; and every time it is Reconnecting it becomes Connecting, however
\* many times the connection was lost before.
C7_ReconnectAfterFixedDelay ==
  /\ [](\A c \in C : connState[c] \in {"Disconnected", "Connecting", "Authenticating",
                                      "Connected", "Reconnecting"})
  /\ [][\A c \in C :
          (connState[c] = "Reconnecting" /\ connState'[c] # "Reconnecting")
          => /\ connState'[c] = "Connecting"
             /\ timers[c].sinceLost = ReconnectDelayMs]_vars
  /\ \A c \in C : (connState[c] = "Reconnecting") ~> (connState[c] = "Connecting")

\* C7 witness: an instance whose connection was lost has re-entered
\* Connecting, 5 s after the loss.
C7_Witness ==
  \E c \in C : /\ connState[c] = "Connecting"
               /\ timers[c].sinceLost = ReconnectDelayMs

\* C8: every send but the first completes at least RateLimitMs after the
\* send that completed before it.
C8_SendsSpacedByRateLimit ==
  \A n \in 2..Len(sendLog) : sendLog[n].gap >= RateLimitMs

\* the place of a call of sendReply in the order of submission
Pos(s) == CHOOSE n \in 1..Len(submitted) : submitted[n] = s

\* C9: sends complete in the order in which their replies were submitted:
\* no send of a reply submitted later completes before a send of a reply
\* submitted earlier.
C9_SendsInSubmissionOrder ==
  \A m, n \in 1..Len(sendLog) :
    m < n => Pos(sendLog[m].by) <= Pos(sendLog[n].by)

\* the inbound messages a request's text was built from
Carries(n, h) == \E j \in 1..Len(requests[n].message) : requests[n].message[j] = h

\* C10: when three messages of one session have each arrived within the
\* debounce window of the one before, at most one chat.send request exists
\* and its text is the ordered join of the three; and of two messages of one
\* session spaced further apart than the window, no request carries both.
C10_DebounceMerges ==
  /\ ( /\ \A h \in H : pc[h] # "init" /\ sessionKey[h] = sessionKey[1]
       /\ \A h \in H \ {1} : gapBefore[h] >= 0 /\ gapBefore[h] < DebounceMs )
     => /\ Len(requests) <= 1
        /\ requests # <<>> => requests[1].message = <<1, 2, 3>>
  /\ \A g, h \in H :
       ( /\ g < h /\ pc[h] # "init"
         /\ sessionKey[g] = sessionKey[h]
         /\ \A f \in H : (g < f /\ f < h) => sessionKey[f] # sessionKey[h]
         /\ gapBefore[h] > DebounceMs )
       => \A n \in 1..Len(requests) : ~(Carries(n, g) /\ Carries(n, h))

\* the chat.send requests whose text holds the message of h
RequestsOf(h) == {n \in 1..Len(requests) : Carries(n, h)}

\* C11: under every interleaving of the messages of the sessions, no message
\* is in more than one chat.send request, and a message whose handler has
\* passed gw.request('chat.send') is in exactly one, whatever requests of the
\* same session were in flight when it arrived.
C11_EachMessageInOneRequest ==
  \A h \in H :
    /\ Cardinality(RequestsOf(h)) <= 1
    /\ pc[h] = "awaitSend" => Cardinality(RequestsOf(h)) = 1
    /\ pc[h] \in {"init", "gateway", "connecting", "connected", "register"}
         => RequestsOf(h) = {}

\* C11 witness: a second message of a session arrived a tick or more after
\* the first one, whose request is in flight, and both are now in one
\* request each, in the order of arrival.
C11_Witness ==
  /\ sessionKey[2] = sessionKey[1]
  /\ gapBefore[2] > 0
  /\ pc[1] = "awaitSend" /\ pc[2] = "awaitSend"
  /\ RequestsOf(1) = {1} /\ RequestsOf(2) = {2}

\* C12: a step that handles a session-reset command for a base leaves that
\* base with a current key that was never returned for it before, and leaves
\* the current key of every other base as it was.
C12_ResetMintsFreshKey ==
  [][ \A base \in Bases :
        ( /\ inbound' # inbound
          /\ inbound'.text \in ResetCommands
          /\ inbound'.sessionBase = base )
        => /\ \A p \in keysReturned : p[1] = base => getSessionKey(base)' # p[2]
           /\ \A b \in Bases \ {base} : getSessionKey(b)' = getSessionKey(b) ]_vars

\* the epoch the Map holds for the base of the first event
EpochA == IF keyRet.baseA \in DOMAIN sessionEpochs THEN sessionEpochs[keyRet.baseA] ELSE 0

DigitValue(ch) == CHOOSE d \in 0..9 : DigitChars[d + 1] = ch
RECURSIVE ParseInt(_)
ParseInt(digits) ==
  IF digits = <<>> THEN 0
  ELSE 10 * ParseInt(SubSeq(digits, 1, Len(digits) - 1)) + DigitValue(digits[Len(digits)])

\* C13: getSessionKey returns the base when the base's epoch is absent or 0;
\* when it is positive the key is the base, a hyphen and the decimal digits
\* of the epoch; and the Session line of /whoami holds that same key.
C13_KeyIsBaseOrBaseEpoch ==
  keyRet.done =>
    LET base == keyRet.baseA
        key == keyRet.keyA IN
    /\ EpochA = 0 => key = base
    /\ EpochA > 0 =>
         /\ Len(key) >= Len(base) + 2
         /\ SubSeq(key, 1, Len(base)) = base
         /\ key[Len(base) + 1] = "-"
         /\ ParseInt(SubSeq(key, Len(base) + 2, Len(key))) = EpochA
    /\ keyRet.whoamiA.session = <<"Session: ">> \o key

\* C13 witness: the key of a base whose epoch is positive was computed
C13_Witness == keyRet.done /\ EpochA > 0 /\ keyRet.keyA # keyRet.baseA

\* C14: two private events have the same base exactly when they have the
\* same participant; two group events have the same base, under shared,
\* exactly when they have the same group and, under per-user, exactly when
\* they have the same group and the same participant.
C14_BaseByModeAndScope ==
  keyRet.done =>
    LET a == keyArgs[1]
        b == keyArgs[2]
        same == keyRet.baseA = keyRet.baseB IN
    /\ (a.messageType = "private" /\ b.messageType = "private")
         => (same <=> a.userId = b.userId)
    /\ (a.messageType = "group" /\ b.messageType = "group" /\ groupSessionMode = "shared")
         => (same <=> a.groupId = b.groupId)
    /\ (a.messageType = "group" /\ b.messageType = "group" /\ groupSessionMode = "user")
         => (same <=> (a.groupId = b.groupId /\ a.userId = b.userId))

\* C14 witness: two participants of one group, under shared, got one base
C14_Witness ==
  /\ keyRet.done
  /\ groupSessionMode = "shared"
  /\ keyArgs[1].messageType = "group" /\ keyArgs[2].messageType = "group"
  /\ keyArgs[1].groupId = keyArgs[2].groupId
  /\ keyArgs[1].userId # keyArgs[2].userId
  /\ keyRet.baseA = keyRet.baseB

\* C15: the files of the cache directory never add up to more than
\* cacheMaxSizeMB * 1024 * 1024 bytes, whatever the size of a written file.
C15_CacheWithinCap == getCacheDirSize <= maxBytes

\* the total of the directory before the last put removed its k-th file
TotalBeforeRemoval(k) ==
  SumOfSizes(lastPut.before) - SumOfSizes({ lastPut.removed[i] : i \in 1..(k - 1) })

\* the files the last put left in the directory before it wrote
LeftByPut == lastPut.before \ Range(lastPut.removed)

\* C16: a put removes files in non-decreasing mtimeMs; removes none when
\* the write already fits; removes a file only while the write does not
\* fit; ends with the write fitting or the directory empty; and removes no
\* file while an older one stays in the directory.
C16_EvictsOldestFirstUntilFit ==
  lastPut.by # 0 =>
    /\ \A i, j \in 1..Len(lastPut.removed) :
         i < j => lastPut.removed[i].mtimeMs <= lastPut.removed[j].mtimeMs
    /\ SumOfSizes(lastPut.before) + lastPut.need <= maxBytes => lastPut.removed = <<>>
    /\ \A k \in 1..Len(lastPut.removed) : TotalBeforeRemoval(k) + lastPut.need > maxBytes
    /\ SumOfSizes(LeftByPut) + lastPut.need <= maxBytes \/ LeftByPut = {}
    /\ \A r \in Range(lastPut.removed) : \A f \in LeftByPut : r.mtimeMs <= f.mtimeMs

\* C17: the total a put decided on is the total of the directory at the
\* moment of its write, also when other downloads were in flight, so a put
\* that found its file to fit leaves the directory within the cap.
C17_PutIsAtomic ==
  lastPut.by # 0 =>
    /\ lastPut.seen = SumOfSizes(LeftByPut)
    /\ (lastPut.wrote /\ lastPut.seen + lastPut.need <= maxBytes)
         => SumOfSizes(lastPut.after) <= maxBytes

\* C17 witness: the download that was written last was in flight while
\* another one was written; it saw that file and made room before its own
\* write, and the directory is within the cap.
C17_Witness ==
  /\ lastPut.by # 0
  /\ dl[lastPut.by].overlapped
  /\ lastPut.wrote
  /\ lastPut.removed # <<>>
  /\ SumOfSizes(lastPut.after) <= maxBytes

\* C18: the last sweep removed every file older than the TTL whose stat and
\* unlink did not fail, removed no file of age at most the TTL, went on
\* after a failure, and left the interval set.
C18_SweepRemovesExpiredOnly ==
  lastSweep.done =>
    /\ sweepLeft >= 0
    /\ lastSweep.after \subseteq lastSweep.before
    /\ \A f \in lastSweep.before :
         /\ (lastSweep.at - f.mtimeMs > ttlMs /\ f \notin lastSweep.failed)
              => f \notin lastSweep.after
         /\ lastSweep.at - f.mtimeMs <= ttlMs => f \in lastSweep.after

\* C18 witness: a sweep in which the unlink of one expired file failed, so
\* that it stayed, and another expired file was removed
C18_Witness ==
  /\ lastSweep.done
  /\ \E f, g \in lastSweep.before :
       /\ lastSweep.at - f.mtimeMs > ttlMs /\ f \in lastSweep.failed
       /\ f \in lastSweep.after
       /\ lastSweep.at - g.mtimeMs > ttlMs /\ g \notin lastSweep.after

\* C20: a handler whose downloadMedia returned null goes on to getGateway(),
\* and its chat.send request holds the text of the message and the url of
\* the media, not a local path.
C20_CacheFailureKeepsMessage ==
  \A h \in H :
    dl[h].pc = "null" =>
      /\ pc[h] \in {"gateway", "connecting", "connected", "register", "awaitSend"}
      /\ mediaLines[h] = <<UrlOf(h)>>
      /\ pc[h] = "awaitSend" =>
           \E n \in 1..Len(requests) :
             /\ requests[n].idempotencyKey = h
             /\ requests[n].message = <<h, UrlOf(h)>>

\* C20 witness: a download failed and the request of its message is out
C20_Witness ==
  \E h \in H :
    /\ dl[h].pc = "null"
    /\ pc[h] = "awaitSend"
    /\ \E n \in 1..Len(requests) : requests[n].message = <<h, UrlOf(h)>>

Inner(str) ==
  LET solid == { i \in 1..Len(str) : str[i] \notin WhiteSpace } IN
  SubSeq(str, CHOOSE i \in solid : \A j \in solid : i <= j,
              CHOOSE i \in solid : \A j \in solid : i >= j)

\* C21: when a chat event of a waiter's session is dispatched to a waiter
\* that has not resolved, a delta leaves it registered, unresolved and with
\* its timer as it was; final, aborted and error remove it, clear its timer
\* and resolve it once: final with the text without the white space around
\* it, or with null when the text is empty or white space alone; aborted
\* with the abort notice; error with the mark and the gateway's error
\* message, or a default text when the frame has none.
C21_OnlyTerminalEventsComplete ==
  [][ \A h \in H :
        ( /\ lastEvent'.n = lastEvent.n + 1
          /\ InTable(h) /\ connState[gw[h]] = "Connected"
          /\ resolveCount[h] = 0
          /\ SessionMatches(lastEvent'.payload.sessionKey, sessionKey[h]) )
        => LET e == lastEvent'.payload IN
           IF e.state = "delta"
           THEN /\ InTable(h)'
                /\ resolveCount'[h] = 0
                /\ timeout'[h] = timeout[h]
                /\ reply'[h] = reply[h]
           ELSE /\ ~InTable(h)'
                /\ resolveCount'[h] = 1
                /\ ~timeout'[h]
                /\ e.state = "final" =>
                      IF \A i \in 1..Len(e.message) : e.message[i] \in WhiteSpace
                      THEN reply'[h] = Null
                      ELSE reply'[h] = Inner(e.message)
                /\ e.state = "aborted" => reply'[h] = AbortNotice
                /\ e.state = "error" =>
                      /\ SubSeq(reply'[h], 1, Len(ErrorMark)) = ErrorMark
                      /\ e.errorMessage # <<>> => EndsWith(reply'[h], e.errorMessage) ]_vars

\* C21 witness: three events of a waiter's session were dispatched, the
\* last one a final frame whose text stands within white space; the waiter
\* was still unresolved after the two before it and is now resolved with
\* the text alone.
C21_Witness ==
  \E h \in H :
    /\ lastEvent.n = MaxEvents
    /\ lastEvent.payload.state = "final"
    /\ lastEvent.payload.message = <<" ", "t", " ">>
    /\ resolvedBy[h] = "event"
    /\ resolvedEvent[h].run = h
    /\ \A g \in H \ {h} : pc[g] = "init"
    /\ reply[h] = <<"t">>

\* C22: the step in which the timer of a waiter fires resolves it with null
\* and does nothing else: the handler stays where it is, no CLI is started,
\* nothing is sent, no client is dropped or disconnected. A handler that
\* awaits its reply and timed out then ends, with nothing sent and no CLI.
C22_TimeoutIsNormalOutcome ==
  [][ \A h \in H :
        /\ (registered[h] /\ resolveCount[h] = 0 /\ resolvedBy'[h] = "timeout")
             => /\ reply'[h] = Null
                /\ pc' = pc
                /\ cliCalls' = cliCalls
                /\ replies' = replies
                /\ gatewayClient' = gatewayClient
                /\ connState' = connState
        /\ (resolvedBy[h] = "timeout" /\ pc[h] = "awaitReply")
             => /\ pc'[h] \in {"awaitReply", "done"}
                /\ replies'[h] = <<>>
                /\ cliCalls'[h] = 0 ]_vars

\* C22 witness: a handler whose request was accepted timed out and has
\* ended; no CLI ran, nothing was sent, and the client it used is still the
\* module's client and connected.
C22_Witness ==
  \E h \in H :
    /\ resolvedBy[h] = "timeout"
    /\ pc[h] = "done"
    /\ run[h] # "none"
    /\ cliCalls[h] = 0
    /\ replies[h] = <<>>
    /\ gw[h] = gatewayClient
    /\ connState[gw[h]] = "Connected"

\* C23: a call of getCacheDirSize, evictOldestFiles or cleanExpiredCache
\* throws nothing, neither without a directory nor when files were removed by
\* another operation after the directory was read; without a directory the
\* size is 0 and nothing is removed; the size counts the files that are
\* still there; and a removed file takes no other file with it: a sweep
\* leaves exactly the files still there that are not expired.
C23_CacheOpsTolerateMissing ==
  lastOp.op # "none" =>
    /\ ~lastOp.threw
    /\ ~lastOp.dir => lastOp.after = {} /\ lastOp.before = {}
    /\ lastOp.op = "getCacheDirSize" =>
         /\ lastOp.value = SumOfSizes({ f \in lastOp.before : f.name \notin lastOp.gone })
         /\ lastOp.after = { f \in lastOp.before : f.name \notin lastOp.gone }
    /\ lastOp.op = "cleanExpiredCache" =>
         lastOp.after = { f \in lastOp.before :
                            f.name \notin lastOp.gone /\ lastOp.value - f.mtimeMs <= ttlMs }
    /\ lastOp.op = "evictOldestFiles" =>
         /\ lastOp.after \subseteq lastOp.before
         /\ \A f \in lastOp.after : f.name \notin lastOp.gone

\* C23 witness: an eviction met a file that was already removed, threw
\* nothing and went on to remove another one.
C23_Witness ==
  /\ lastOp.op = "evictOldestFiles"
  /\ lastOp.dir
  /\ lastOp.gone # {}
  /\ \E f \in lastOp.before : f.name \notin lastOp.gone /\ f \notin lastOp.after
  /\ ~lastOp.threw

\* C24: a call of getGateway with a client in place constructs none; when
\* that client is Connected the call changes no connection state and
\* returns it without waiting; when its attempt is in flight (Connecting or
\* Authenticating) the call changes no connection state, so no socket is
\* opened, and waits for that attempt; and the handlers that wait for one
\* attempt leave the wait in the same step with the same outcome.
C24_GetGatewaySharesConnect ==
  [][ \A h \in H :
        /\ (pc[h] = "gateway" /\ pc'[h] # "gateway" /\ gatewayClient # 0)
             => /\ created' = created
                /\ gatewayClient' = gatewayClient
                /\ connState[gatewayClient] = "Connected"
                     => /\ connState' = connState
                        /\ pc'[h] = "register"
                        /\ gw'[h] = gatewayClient
                /\ connState[gatewayClient] \in {"Connecting", "Authenticating"}
                     => /\ connState' = connState
                        /\ pc'[h] = "connecting"
                        /\ connOf'[h] = gatewayClient
        /\ \A g \in H :
             (pc[h] = "connecting" /\ pc[g] = "connecting" /\ connOf[h] = connOf[g])
             => (pc'[h] = pc'[g] /\ connOf'[h] = connOf'[g]) ]_vars

\* C24 witness: two handlers called getGateway while the one attempt of the
\* one client was in flight, and connect() has resolved for both.
C24_Witness ==
  \E g, h \in H :
    /\ g # h
    /\ pc[g] = "connected" /\ pc[h] = "connected"
    /\ created = 1
    /\ connState[1] = "Connected"

\* C25: the catch of a handler that had obtained a client disconnects no
\* instance but that one, and leaves the module's client in place when it is
\* another, newer instance.
C25_CatchDropsOnlyOwnClient ==
  [][ \A h \in H :
        (pc[h] = "catch" /\ pc'[h] = "fallback" /\ gw[h] # 0)
        => /\ \A c \in C :
                (connState[c] # "Disconnected" /\ connState'[c] = "Disconnected")
                => c = gw[h]
           /\ gatewayClient # gw[h] => gatewayClient' = gatewayClient ]_vars

\* C26: the step that starts the CLI fallback for a message is never taken
\* when the waiter of that message was already resolved by an event with a
\* reply (so not when only sendReply of that reply threw), and the CLI is
\* started at most once for a message.
C26_NoFallbackAfterReply ==
  [][ \A h \in H :
        cliCalls'[h] > cliCalls[h]
        => /\ ~(resolvedBy[h] = "event" /\ reply[h] # Null)
           /\ cliCalls[h] = 0 ]_vars

\* C27: every instance constructed so far, other than the one the module
\* variable gatewayClient holds, is disconnected for good: its state is
\* Disconnected and none of its timers is armed.
C27_OneLiveClient ==
  \A c \in C :
    (c <= created /\ c # gatewayClient)
    => (connState[c] = "Disconnected" /\ timers[c] = NoTimers)

\* C27 witness: a second instance is live after the first one was dropped
C27_Witness ==
  /\ created = 2 /\ gatewayClient = 2
  /\ connState[2] = "Connected"
  /\ connState[1] = "Disconnected"

C28_WaiterRegisteredBeforeSend ==
  \A h \in H :
    (pc[h] = "awaitSend" /\ resolveCount[h] = 0) => InTable(h)
====
